---------------------------- MODULE Spec2Model ----------------------------
(***************************************************************************)
(* code2md: the filtering and traversal engine of src/code2md/main.py.     *)
(*                                                                         *)
(* Text is modelled as a sequence of characters, each character a string.  *)
(* The four box-drawing code points of the tree rendering are written as   *)
(* the tokens "U2502" (vertical), "U251C" (tee), "U2514" (corner) and      *)
(* "U2500" (horizontal); each stands for one character.                    *)
(*                                                                         *)
(* A pathlib.Path below the traversal root is the sequence of its          *)
(* components relative to the root; the root itself is the empty sequence  *)
(* and root_dir holds the root's own name (the last component of the       *)
(* resolved absolute path).                                                *)
(***************************************************************************)
EXTENDS Integers, Sequences, FiniteSets, TLC

VARIABLES
    include_files,      \* None, or Some(list of relative-path strings)
    exclude_files,      \* set of relative-path strings
    exclude_dirs,       \* set of strings
    exclude_patterns,   \* list of glob patterns
    root_dir,           \* the name of the traversal root
    output_file,        \* the report's own file name
    disk,               \* the host filesystem: [kind, denied]
    pc,                 \* position inside generate_markdown
    listing,            \* the order in which the host lists directories now
    tree_structure,     \* result of generate_tree_structure(root_dir)
    all_files,          \* result of collect_files(root_dir)
    prev_tree,          \* None, or Some(tree_structure of the previous run)
    prev_files          \* None, or Some(all_files of the previous run)

config == <<include_files, exclude_files, exclude_dirs, exclude_patterns,
            root_dir, output_file>>
vars == <<include_files, exclude_files, exclude_dirs, exclude_patterns,
          root_dir, output_file, disk, pc, listing,
          tree_structure, all_files, prev_tree, prev_files>>

---------------------------------------------------------------------------
(* Characters and strings                                                  *)

Upper == <<"A","B","C","D","E","F","G","H","I","J","K","L","M",
           "N","O","P","Q","R","S","T","U","V","W","X","Y","Z">>
Lower == <<"a","b","c","d","e","f","g","h","i","j","k","l","m",
           "n","o","p","q","r","s","t","u","v","w","x","y","z">>

Punctuation == {"\n", " ", "*", ".", "/", "?", "_"}

Alphabet == {Upper[i] : i \in 1..26} \cup {Lower[i] : i \in 1..26}
            \cup Punctuation

\* ord(c): the code point of a character (ASCII).
Ord ==
    [c \in Alphabet |->
        IF \E i \in 1..26 : Upper[i] = c
        THEN 64 + (CHOOSE i \in 1..26 : Upper[i] = c)
        ELSE IF \E i \in 1..26 : Lower[i] = c
        THEN 96 + (CHOOSE i \in 1..26 : Lower[i] = c)
        ELSE CASE c = "\n" -> 10
               [] c = " "  -> 32
               [] c = "*"  -> 42
               [] c = "."  -> 46
               [] c = "/"  -> 47
               [] c = "?"  -> 63
               [] c = "_"  -> 95]

\* c.lower() for one character.
LowerOf ==
    [c \in Alphabet |->
        IF \E k \in 1..26 : Upper[k] = c
        THEN Lower[CHOOSE k \in 1..26 : Upper[k] = c]
        ELSE c]

\* str.lower(), character by character.
lower(s) == [i \in 1..Len(s) |-> LowerOf[s[i]]]

\* str.startswith(c) for a one-character prefix.
startswith(s, c) == Len(s) >= 1 /\ s[1] = c

\* c in s, for a character c.
contains(s, c) == \E i \in 1..Len(s) : s[i] = c

\* Python's < on two sequences of integers (tuples and strings compare
\* lexicographically, a proper prefix being smaller).
RECURSIVE LexLess(_, _)
LexLess(a, b) ==
    IF b = <<>> THEN FALSE
    ELSE IF a = <<>> THEN TRUE
    ELSE IF a[1] # b[1] THEN a[1] < b[1]
    ELSE LexLess(Tail(a), Tail(b))

\* sep.join(parts)
RECURSIVE join(_, _)
join(sep, parts) ==
    IF parts = <<>> THEN <<>>
    ELSE IF Len(parts) = 1 THEN parts[1]
    ELSE parts[1] \o sep \o join(sep, Tail(parts))

\* s.split(sep) for a one-character separator.
RECURSIVE split(_, _)
split(s, sep) ==
    IF ~contains(s, sep) THEN <<s>>
    ELSE LET k == CHOOSE i \in 1..Len(s) :
                      s[i] = sep /\ \A j \in 1..(i-1) : s[j] # sep
         IN  <<SubSeq(s, 1, k-1)>> \o split(SubSeq(s, k+1, Len(s)), sep)

\* fnmatch.fnmatch(name, pat) on POSIX (normcase is the identity): the
\* pattern is matched against the whole of name; "*" matches any run of
\* characters, "/" included, "?" exactly one character, anything else
\* itself.  Patterns of this model hold no "[", so fnmatch's character
\* classes are not modelled.
RECURSIVE fnmatch_from(_, _, _, _)
fnmatch_from(s, i, p, j) ==
    IF j > Len(p) THEN i > Len(s)
    ELSE IF p[j] = "*"
    THEN \E k \in i..(Len(s)+1) : fnmatch_from(s, k, p, j+1)
    ELSE IF i > Len(s) THEN FALSE
    ELSE IF p[j] = "?" THEN fnmatch_from(s, i+1, p, j+1)
    ELSE p[j] = s[i] /\ fnmatch_from(s, i+1, p, j+1)

fnmatch(name, pat) == fnmatch_from(name, 1, pat, 1)

---------------------------------------------------------------------------
(* Paths                                                                   *)

\* Optional[List[str]]: None is the empty tuple, a list l is <<l>>.
None == <<>>
Some(l) == <<l>>

\* Path.name
name_of(path) == IF path = <<>> THEN root_dir ELSE path[Len(path)]

\* str(path.relative_to(self.root_dir)); the root relative to itself is ".".
relative_to_root(path) ==
    IF path = <<>> THEN <<".">> ELSE join(<<"/">>, path)

\* x in xs, for a list xs.
in_list(x, xs) == \E i \in 1..Len(xs) : xs[i] = x

---------------------------------------------------------------------------
(* Filter policy                                                           *)

\* A filter that matches patterns against a directory's bare name only.
should_exclude_dir_name_only(dir_path) ==
    LET name == name_of(dir_path)
        relative_path == relative_to_root(dir_path)
    IN  \/ startswith(name, ".")
        \/ relative_path \in exclude_dirs
        \/ name \in exclude_dirs
        \/ \E n \in 1..Len(exclude_patterns) :
              fnmatch(name, exclude_patterns[n])

should_exclude_dir(dir_path) ==
    LET name == name_of(dir_path)
        relative_path == relative_to_root(dir_path)
        path_parts == split(relative_path, "/")
    IN  \/ startswith(name, ".")
        \/ relative_path \in exclude_dirs
        \/ name \in exclude_dirs
        \/ \E n \in 1..Len(exclude_patterns) :
              LET pattern == exclude_patterns[n]
              IN  \/ fnmatch(name, pattern)
                  \/ fnmatch(relative_path, pattern)
                  \/ /\ contains(pattern, "/")
                     /\ \E i \in 1..Len(path_parts) :
                           fnmatch(join(<<"/">>, SubSeq(path_parts, 1, i)),
                                   pattern)

\* A filter that consults the allow-list before the exclusion rules.
should_exclude_file_allow_first(file_path) ==
    LET name == name_of(file_path)
        rel_path_str == relative_to_root(file_path)
    IN  IF include_files # None
        THEN ~in_list(rel_path_str, include_files[1])
        ELSE \/ startswith(name, ".")
             \/ name = output_file
             \/ rel_path_str \in exclude_files
             \/ \E n \in 1..Len(exclude_patterns) :
                   \/ fnmatch(name, exclude_patterns[n])
                   \/ fnmatch(rel_path_str, exclude_patterns[n])

\* A filter that compares the output name with the relative path, so that
\* only the root's own output file is excluded.
should_exclude_file_output_path(file_path) ==
    LET name == name_of(file_path)
        rel_path_str == relative_to_root(file_path)
    IN  IF startswith(name, ".") THEN TRUE
        ELSE IF rel_path_str = output_file THEN TRUE
        ELSE IF rel_path_str \in exclude_files THEN TRUE
        ELSE IF \E n \in 1..Len(exclude_patterns) :
                   \/ fnmatch(name, exclude_patterns[n])
                   \/ fnmatch(rel_path_str, exclude_patterns[n])
             THEN TRUE
        ELSE IF include_files # None
             THEN ~in_list(rel_path_str, include_files[1])
        ELSE FALSE

should_exclude_file(file_path) ==
    LET name == name_of(file_path)
        rel_path_str == relative_to_root(file_path)
    IN  IF startswith(name, ".") THEN TRUE
        ELSE IF name = output_file THEN TRUE
        ELSE IF rel_path_str \in exclude_files THEN TRUE
        ELSE IF \E n \in 1..Len(exclude_patterns) :
                   \/ fnmatch(name, exclude_patterns[n])
                   \/ fnmatch(rel_path_str, exclude_patterns[n])
                   \/ /\ contains(exclude_patterns[n], "/")
                      /\ fnmatch(rel_path_str, exclude_patterns[n])
             THEN TRUE
        ELSE IF include_files # None
             THEN ~in_list(rel_path_str, include_files[1])
        ELSE FALSE

---------------------------------------------------------------------------
(* Host filesystem                                                         *)
(*                                                                         *)
(* F.kind maps every existing path to "dir", "file" or "other" (an entry   *)
(* for which both Path.is_dir() and Path.is_file() are false: a dangling   *)
(* symbolic link, a FIFO, a socket, a device).  F.denied is the set of     *)
(* directories whose listing raises PermissionError.                       *)

is_dir(F, path) == path \in DOMAIN F.kind /\ F.kind[path] = "dir"

is_file(F, path) == path \in DOMAIN F.kind /\ F.kind[path] = "file"

children(F, path) ==
    {q \in DOMAIN F.kind :
        Len(q) = Len(path) + 1 /\ SubSeq(q, 1, Len(path)) = path}

codepoints(s) == [i \in 1..Len(s) |-> Ord[s[i]]]

\* The order in which the host lists a directory is arbitrary
\* (os.listdir / os.scandir); the model lets the host list by ascending or
\* by descending name.
ListingOrders == {"asc", "desc"}

host_before(order, p, q) ==
    IF order = "asc"
    THEN LexLess(codepoints(name_of(p)), codepoints(name_of(q)))
    ELSE LexLess(codepoints(name_of(q)), codepoints(name_of(p)))

\* path.iterdir(), once the listing has succeeded.
iterdir(F, order, path) ==
    LET S == children(F, path)
    IN  [i \in 1..Cardinality(S) |->
            CHOOSE p \in S :
                Cardinality({q \in S : host_before(order, q, p)}) = i - 1]

\* sorted(xs, key=key), key being a function on the elements of xs: a
\* stable sort, equal keys keep the order of xs.
sorted(xs, key) ==
    LET before(j, i) ==
            \/ LexLess(key[xs[j]], key[xs[i]])
            \/ key[xs[j]] = key[xs[i]] /\ j < i
        rank(i) == 1 + Cardinality({j \in 1..Len(xs) : before(j, i)})
    IN  [p \in 1..Len(xs) |-> xs[CHOOSE i \in 1..Len(xs) : rank(i) = p]]

\* key=lambda x: (x.is_file(), x.name.lower()), as a sequence of integers
\* (False < True, then the code points of the lowered name).
tree_key(F, x) ==
    <<IF is_file(F, x) THEN 1 ELSE 0>> \o codepoints(lower(name_of(x)))

\* key=lambda x: x.name.lower()
collect_key(x) == codepoints(lower(name_of(x)))

---------------------------------------------------------------------------
(* Tree renderer                                                           *)

LAST_CONNECTOR == <<"U2514", "U2500", "U2500", " ">>
MID_CONNECTOR  == <<"U251C", "U2500", "U2500", " ">>
LAST_INDENT    == <<" ", " ", " ", " ">>
MID_INDENT     == <<"U2502", " ", " ", " ">>

\* The entries of a listed directory that survive the filter (lines 110-116).
filter_entries(F, all_entries) ==
    SelectSeq(all_entries,
              LAMBDA entry : IF is_dir(F, entry)
                             THEN ~should_exclude_dir(entry)
                             ELSE ~should_exclude_file(entry))

\* The first line of a call (lines 95-101).
tree_line(F, path, prefix, is_last) ==
    IF path = <<>>
    THEN name_of(path) \o <<"/", "\n">>
    ELSE prefix
         \o (IF is_last THEN LAST_CONNECTOR ELSE MID_CONNECTOR)
         \o name_of(path)
         \o (IF is_dir(F, path) THEN <<"/">> ELSE <<>>)
         \o <<"\n">>

\* A prefix that is extended below the root as below any other directory.
new_prefix_always_extended(path, prefix, is_last) ==
    prefix \o (IF is_last THEN LAST_INDENT ELSE MID_INDENT)

\* The prefix handed to the children of path (lines 122-125).
new_prefix_of(path, prefix, is_last) ==
    IF path = <<>> THEN <<>>
    ELSE prefix \o (IF is_last THEN LAST_INDENT ELSE MID_INDENT)

\* Both traversals return [str/files, raised]: raised tells that the call
\* ended by a PermissionError leaving it instead of by a return.
RECURSIVE generate_tree_structure(_, _, _, _, _)
RECURSIVE tree_loop(_, _, _, _, _, _)

\* for i, entry in enumerate(entries), from index i on, with tree_str the
\* text built so far (lines 119-129).  An exception leaving a recursive
\* call leaves the loop.
tree_loop(F, order, entries, i, new_prefix, tree_str) ==
    IF i > Len(entries) THEN [str |-> tree_str, raised |-> FALSE]
    ELSE LET sub == generate_tree_structure(F, order, entries[i], new_prefix,
                                            i = Len(entries))
         IN  IF sub.raised THEN [str |-> tree_str, raised |-> TRUE]
             ELSE tree_loop(F, order, entries, i + 1, new_prefix,
                            tree_str \o sub.str)

\* A renderer without its except clause: a PermissionError raised by a
\* listing, or by a recursive call, leaves the call.
generate_tree_structure_no_except(F, order, path, prefix, is_last) ==
    LET tree_str == tree_line(F, path, prefix, is_last)
    IN  IF is_dir(F, path) /\ ~should_exclude_dir(path)
        THEN IF path \in F.denied
             THEN [str |-> tree_str, raised |-> TRUE]
             ELSE LET all_entries ==
                          sorted(iterdir(F, order, path),
                                 [x \in children(F, path) |->
                                     tree_key(F, x)])
                      entries == filter_entries(F, all_entries)
                      new_prefix == new_prefix_of(path, prefix, is_last)
                  IN  tree_loop(F, order, entries, 1, new_prefix, tree_str)
        ELSE [str |-> tree_str, raised |-> FALSE]

generate_tree_structure(F, order, path, prefix, is_last) ==
    LET tree_str == tree_line(F, path, prefix, is_last)
    IN  IF is_dir(F, path) /\ ~should_exclude_dir(path)
        THEN IF path \in F.denied
             THEN \* sorted(path.iterdir(), ...) raises; except: pass
                  [str |-> tree_str, raised |-> FALSE]
             ELSE LET all_entries ==
                          sorted(iterdir(F, order, path),
                                 [x \in children(F, path) |->
                                     tree_key(F, x)])
                      entries == filter_entries(F, all_entries)
                      new_prefix == new_prefix_of(path, prefix, is_last)
                      body == tree_loop(F, order, entries, 1, new_prefix,
                                        tree_str)
                  IN  \* except PermissionError: pass
                      [str |-> body.str, raised |-> FALSE]
        ELSE [str |-> tree_str, raised |-> FALSE]

---------------------------------------------------------------------------
(* File collector                                                          *)

RECURSIVE collect_files(_, _, _)
RECURSIVE collect_loop(_, _, _, _, _)

\* for entry in sorted(...): files.extend(self.collect_files(entry))
collect_loop(F, order, entries, i, files) ==
    IF i > Len(entries) THEN [files |-> files, raised |-> FALSE]
    ELSE LET sub == collect_files(F, order, entries[i])
         IN  IF sub.raised THEN [files |-> files, raised |-> TRUE]
             ELSE collect_loop(F, order, entries, i + 1, files \o sub.files)

\* A collector that descends into every directory, the filter unasked.
collect_files_every_dir(F, order, path) ==
    IF is_file(F, path)
    THEN [files |-> IF ~should_exclude_file(path) THEN <<path>> ELSE <<>>,
          raised |-> FALSE]
    ELSE IF is_dir(F, path)
    THEN IF path \in F.denied
         THEN [files |-> <<>>, raised |-> FALSE]
         ELSE LET entries ==
                      sorted(iterdir(F, order, path),
                             [x \in children(F, path) |-> collect_key(x)])
                  body == collect_loop(F, order, entries, 1, <<>>)
              IN  [files |-> body.files, raised |-> FALSE]
    ELSE [files |-> <<>>, raised |-> FALSE]

collect_files(F, order, path) ==
    IF is_file(F, path)
    THEN [files |-> IF ~should_exclude_file(path) THEN <<path>> ELSE <<>>,
          raised |-> FALSE]
    ELSE IF is_dir(F, path) /\ ~should_exclude_dir(path)
    THEN IF path \in F.denied
         THEN \* path.iterdir() raises; except: pass
              [files |-> <<>>, raised |-> FALSE]
         ELSE LET entries ==
                      sorted(iterdir(F, order, path),
                             [x \in children(F, path) |-> collect_key(x)])
                  body == collect_loop(F, order, entries, 1, <<>>)
              IN  \* except PermissionError: pass
                  [files |-> body.files, raised |-> FALSE]
    ELSE [files |-> <<>>, raised |-> FALSE]

---------------------------------------------------------------------------
(* Inputs: the directory trees and the command lines the model runs on     *)

MaxEntries == 3     \* entries below the root
MaxSettings == 2    \* filter rules given, plus a root name that the
                    \* filter matches, plus directories denied to list

s_a      == <<"a">>
s_A      == <<"A">>
s_b      == <<"b">>
s_z      == <<"z">>
s_r      == <<"r">>
s_dot_r  == <<".", "r">>
s_git    == <<".", "g", "i", "t">>
s_build  == <<"b", "u", "i", "l", "d">>
s_sub    == <<"s", "u", "b">>
s_deep   == <<"d", "e", "e", "p">>
s_out_md == <<"o", "u", "t", ".", "m", "d">>

\* Every entry a tree of the model may hold, with its kind.
Candidates ==
    [kind : {"dir"},
     path : {<<s_build>>, <<s_build, s_sub>>, <<s_build, s_sub, s_deep>>,
             <<s_git>>}]
    \cup
    [kind : {"file"},
     path : {<<s_a>>, <<s_A>>, <<s_build, s_b>>,
             <<s_build, s_out_md>>, <<s_git, s_a>>}]
    \cup
    [kind : {"other"}, path : {<<s_z>>}]

\* The trees: a root directory and at most MaxEntries entries below it,
\* every entry inside a directory of the tree.
Trees ==
    {T \in SUBSET Candidates :
        /\ Cardinality(T) <= MaxEntries
        /\ \A e \in T :
              Len(e.path) > 1 =>
                  \E d \in T : /\ d.kind = "dir"
                               /\ d.path = SubSeq(e.path, 1, Len(e.path) - 1)}

kind_of(T) ==
    [p \in {<<>>} \cup {e.path : e \in T} |->
        IF p = <<>> THEN "dir" ELSE (CHOOSE e \in T : e.path = p).kind]

RootNames == {s_r, s_dot_r, s_sub}

IncludeChoices ==
    {None,
     Some(<<s_a, s_A, join(<<"/">>, <<s_build, s_out_md>>),
            join(<<"/">>, <<s_git, s_a>>)>>)}

ExcludeFileChoices == {{}, {s_a}}

ExcludeDirChoices == {{}, {s_sub}, {join(<<"/">>, <<s_build, s_sub>>)}}

PatternChoices ==
    {<<>>,
     <<s_build \o <<"/">> \o s_sub \o <<"/", "*">>>>,
     <<<<"?">>>>,
     <<<<"b", "*">>>>}

\* The directories whose listing the host may deny.
DeniedChoices == {{}, {<<>>}, {<<s_build>>}}

setting_count(inc, exf, exd, pat, root, denied) ==
    (IF inc = None THEN 0 ELSE 1) + Cardinality(exf) + Cardinality(exd)
    + Len(pat) + (IF root = s_r THEN 0 ELSE 1) + Cardinality(denied)

---------------------------------------------------------------------------
(* The program: Code2MD.generate_markdown                                  *)

Init ==
    /\ include_files \in IncludeChoices
    /\ exclude_files \in ExcludeFileChoices
    /\ exclude_dirs \in ExcludeDirChoices
    /\ exclude_patterns \in PatternChoices
    /\ root_dir \in RootNames
    /\ output_file = s_out_md
    /\ \E T \in Trees, D \in DeniedChoices :
          /\ D \subseteq {<<>>} \cup {e.path : e \in {x \in T : x.kind = "dir"}}
          /\ setting_count(include_files, exclude_files, exclude_dirs,
                           exclude_patterns, root_dir, D) <= MaxSettings
          /\ disk = [kind |-> kind_of(T), denied |-> D]
    /\ pc = "start"
    /\ listing = "asc"
    /\ tree_structure = <<>>
    /\ all_files = <<>>
    /\ prev_tree = None
    /\ prev_files = None

\* Line 169: tree_structure = self.generate_tree_structure(self.root_dir).
\* The host's listing order of this run is fixed here.
GenerateTree ==
    /\ pc = "start"
    /\ \E order \in ListingOrders :
          LET r == generate_tree_structure(disk, order, <<>>, <<>>, TRUE)
          IN  /\ listing' = order
              /\ tree_structure' = r.str
              /\ pc' = IF r.raised THEN "failed" ELSE "tree"
    /\ UNCHANGED <<config, disk, all_files, prev_tree, prev_files>>

\* Line 172: all_files = self.collect_files(self.root_dir).
CollectFiles ==
    /\ pc = "tree"
    /\ LET r == collect_files(disk, listing, <<>>)
       IN  /\ all_files' = r.files
           /\ pc' = IF r.raised THEN "failed" ELSE "done"
    /\ UNCHANGED <<config, disk, listing, tree_structure, prev_tree,
                   prev_files>>

\* The tool is run again on the unchanged tree with the same command line.
Rerun ==
    /\ pc = "done"
    /\ prev_tree' = Some(tree_structure)
    /\ prev_files' = Some(all_files)
    /\ pc' = "start"
    /\ UNCHANGED <<config, disk, listing, tree_structure, all_files>>

\* One run of generate_markdown.
Next == GenerateTree \/ CollectFiles

Spec == Init /\ [][Next]_vars

\* Any number of runs, one after the other.
NextRerun == GenerateTree \/ CollectFiles \/ Rerun

SpecRerun == Init /\ [][NextRerun]_vars

---------------------------------------------------------------------------
(* Reading a result back: the lines of the tree text and the entry each    *)
(* line stands for                                                         *)

Glyphs == {" ", "U2502", "U251C", "U2514", "U2500"}

\* The number of leading indentation and connector characters of a line.
lead(line) ==
    IF \A i \in 1..Len(line) : line[i] \in Glyphs THEN Len(line)
    ELSE (CHOOSE i \in 1..Len(line) :
              line[i] \notin Glyphs /\ \A j \in 1..(i-1) : line[j] \in Glyphs)
         - 1

parse_line(line) ==
    LET n == lead(line)
        rest == SubSeq(line, n + 1, Len(line))
        slash == Len(rest) >= 1 /\ rest[Len(rest)] = "/"
    IN  [depth |-> n \div 4,
         indent |-> IF n >= 4 THEN SubSeq(line, 1, n - 4) ELSE <<>>,
         connector |-> IF n >= 4 THEN SubSeq(line, n - 3, n) ELSE <<>>,
         name |-> IF slash THEN SubSeq(rest, 1, Len(rest) - 1) ELSE rest,
         slash |-> slash]

\* The text cut at its newlines; a text whose every line ends with a
\* newline leaves an empty last piece, which is dropped.
pieces(text) == split(text, "\n")

newline_terminated(text) == Len(text) >= 1 /\ text[Len(text)] = "\n"

parsed_lines(text) ==
    LET P == pieces(text)
    IN  [i \in 1..(Len(P) - 1) |-> parse_line(P[i])]

\* The path of the entry line i stands for: its name below the entry of
\* the nearest earlier line that is one level up (below NoEntry when there
\* is no such line).
NoEntry == <<"/">>

RECURSIVE line_path(_, _)
line_path(L, i) ==
    IF L[i].depth = 0 THEN <<>>
    ELSE LET up == {j \in 1..(i-1) : L[j].depth = L[i].depth - 1}
         IN  IF up = {} THEN <<NoEntry, L[i].name>>
             ELSE line_path(L, CHOOSE k \in up : \A m \in up : m <= k)
                  \o <<L[i].name>>

TreeLines == parsed_lines(tree_structure)

\* The paths of the lines L, line by line.
paths_of(L) == [i \in 1..Len(L) |-> line_path(L, i)]

\* The set of the elements of a sequence, and the place of one of them.
elements(P) == {P[i] : i \in 1..Len(P)}

index_in(P, p) == CHOOSE i \in 1..Len(P) : P[i] = p

Rendered == elements(paths_of(TreeLines))

RenderedFiles ==
    LET L == TreeLines
        P == paths_of(L)
    IN  {P[i] : i \in {k \in 1..Len(P) : ~L[k].slash}}

Collected == elements(all_files)

Entries == DOMAIN disk.kind \ {<<>>}

parent(p) == SubSeq(p, 1, Len(p) - 1)

\* The filter's verdict on one entry, by its type.
visible(p) ==
    IF is_dir(disk, p) THEN ~should_exclude_dir(p)
    ELSE ~should_exclude_file(p)

---------------------------------------------------------------------------
(* Claims                                                                  *)

\* C1: the traversal root is never filtered: whatever the root's name and
\* the rules, every child of a listable root that passes the filter is
\* rendered below the root line, and every such child that is a file is
\* collected.
C1_RootNeverFiltered ==
    (pc = "done" /\ <<>> \notin disk.denied) =>
        LET R == Rendered
        IN  \A c \in children(disk, <<>>) :
                visible(c) => /\ c \in R
                              /\ is_file(disk, c) => c \in Collected

\* The exclusion rules of a file other than the allow-list: hidden name,
\* output name, exclude list, exclude patterns.
excluded_by_rules(f) ==
    \/ startswith(name_of(f), ".")
    \/ name_of(f) = output_file
    \/ relative_to_root(f) \in exclude_files
    \/ \E n \in 1..Len(exclude_patterns) :
          \/ fnmatch(name_of(f), exclude_patterns[n])
          \/ fnmatch(relative_to_root(f), exclude_patterns[n])

listed(f) ==
    include_files # None /\ in_list(relative_to_root(f), include_files[1])

\* C2: includeFiles dominance: a file that an exclusion rule matches is
\* invisible even when the allow-list names it; a file no exclusion rule
\* matches is visible exactly when the allow-list is unset or names it.
C2_IncludeDominance ==
    \A f \in {e \in Entries : ~is_dir(disk, e)} :
        /\ excluded_by_rules(f) => should_exclude_file(f)
        /\ ~excluded_by_rules(f) =>
              (~should_exclude_file(f) <=> (include_files = None \/ listed(f)))

C2_Witness ==
    /\ pc = "done"
    /\ include_files # None
    /\ \E f \in Entries :
          /\ listed(f)
          /\ relative_to_root(f) \in exclude_files
          /\ f \notin Collected
    /\ \E g \in Entries :
          ~is_dir(disk, g) /\ ~excluded_by_rules(g) /\ ~listed(g)
          /\ g \notin Rendered
    /\ \E h \in Entries : listed(h) /\ h \in Collected /\ h \in Rendered

\* C3: self-exclusion: an entry that is not a directory and bears the
\* output file's name is invisible at every depth, is on no line of the
\* tree and is not collected, the allow-list naming it or not.
C3_SelfExclusion ==
    /\ \A f \in {e \in Entries : ~is_dir(disk, e)} :
          name_of(f) = output_file => should_exclude_file(f)
    /\ pc \in {"tree", "done"} =>
          LET L == TreeLines
          IN  \A i \in 1..Len(L) : L[i].name = output_file => L[i].slash
    /\ pc = "done" =>
          \A i \in 1..Len(all_files) : name_of(all_files[i]) # output_file

C3_Witness ==
    /\ pc = "done"
    /\ \E f \in Entries :
          /\ Len(f) = 2
          /\ name_of(f) = output_file
          /\ listed(f)
          /\ parent(f) \in Rendered
          /\ f \notin Rendered
          /\ f \notin Collected

\* C4: the tree and the file list agree: the entries on the file lines of
\* the tree are exactly the collected paths.
C4_TreeCollectorConsistent ==
    pc = "done" => RenderedFiles = Collected

\* C5: idempotence: a second run on the unchanged tree with the same
\* configuration gives the same tree text and the same file list, however
\* the host orders its listings.
C5_Idempotent ==
    (pc = "done" /\ prev_tree # None) =>
        /\ prev_tree = Some(tree_structure)
        /\ prev_files = Some(all_files)

\* The tree with nothing below the directories whose listing is denied,
\* every listing allowed.
emptied(F) ==
    LET keep == {q \in DOMAIN F.kind :
                    \A k \in 0..(Len(q) - 1) : SubSeq(q, 1, k) \notin F.denied}
    IN  [kind |-> [q \in keep |-> F.kind[q]], denied |-> {}]

below(p, d) == Len(p) > Len(d) /\ SubSeq(p, 1, Len(d)) = d

\* C6: a denied listing never aborts the run: the directory keeps its own
\* line and has no line below it, no file below it is collected, and the
\* tree text and the file list are those of the same tree with the denied
\* directories empty.
C6_PermissionSwallowed ==
    /\ pc # "failed"
    /\ pc \in {"tree", "done"} =>
          /\ tree_structure =
                generate_tree_structure(emptied(disk), listing, <<>>, <<>>,
                                        TRUE).str
          /\ LET R == Rendered
             IN  \A d \in disk.denied : \A p \in R : ~below(p, d)
    /\ pc = "done" =>
          /\ all_files = collect_files(emptied(disk), listing, <<>>).files
          /\ \A d \in disk.denied : \A p \in Collected : ~below(p, d)

C6_Witness ==
    /\ pc = "done"
    /\ LET P == paths_of(TreeLines)
       IN  \E d \in disk.denied :
              /\ d # <<>>
              /\ d \in elements(P)
              /\ \E c \in Entries : below(c, d) /\ visible(c)
              /\ \E f \in Collected :
                    /\ parent(f) = parent(d)
                    /\ f \in elements(P)
                    /\ index_in(P, f) > index_in(P, d)

\* C7: sibling ordering: of two rendered children of a directory, each a
\* directory or a file, x is above y exactly when x is a directory and y a
\* file, or both are of one type and x's lowered name is smaller; of two
\* collected files, the one whose entry below their common directory has
\* the smaller lowered name comes first.
C7_SiblingOrder ==
    pc = "done" =>
        LET P == paths_of(TreeLines)
            R == {x \in elements(P) \ {<<>>} :
                     is_dir(disk, x) \/ is_file(disk, x)}
        IN  /\ \A x, y \in R :
                  (x # y /\ parent(x) = parent(y)) =>
                      ((index_in(P, x) < index_in(P, y)) <=>
                          \/ is_dir(disk, x) /\ is_file(disk, y)
                          \/ /\ disk.kind[x] = disk.kind[y]
                             /\ LexLess(codepoints(lower(name_of(x))),
                                        codepoints(lower(name_of(y)))))
            /\ \A p, q \in Collected :
                  p # q =>
                      LET k == CHOOSE i \in 1..Len(p) :
                                   /\ i <= Len(q)
                                   /\ p[i] # q[i]
                                   /\ SubSeq(p, 1, i - 1) = SubSeq(q, 1, i - 1)
                      IN  (index_in(all_files, p) < index_in(all_files, q))
                          <=> LexLess(codepoints(lower(p[k])),
                                      codepoints(lower(q[k])))

\* The leading prefixes a, a/b, ... of a path, as strings.
prefixes(d) == {join(<<"/">>, SubSeq(d, 1, i)) : i \in 1..Len(d)}

p_build_sub_star == s_build \o <<"/">> \o s_sub \o <<"/", "*">>

\* C8: directory pattern exclusion is path-prefix aware: a directory is
\* invisible whenever a pattern matches its bare name, its relative path
\* or, for a pattern with a "/", a leading prefix of its relative path,
\* the whole candidate being matched; with the one pattern build/sub/*,
\* build and build/sub are visible and rendered, build/sub/deep is not.
C8_DirPatternPrefix ==
    /\ \A d \in {e \in Entries : is_dir(disk, e)} :
          (\E n \in 1..Len(exclude_patterns) :
              \/ fnmatch(name_of(d), exclude_patterns[n])
              \/ fnmatch(relative_to_root(d), exclude_patterns[n])
              \/ /\ contains(exclude_patterns[n], "/")
                 /\ \E c \in prefixes(d) : fnmatch(c, exclude_patterns[n]))
          => should_exclude_dir(d)
    /\ (exclude_patterns = <<p_build_sub_star>> /\ exclude_dirs = {}) =>
          /\ <<s_build>> \in Entries => ~should_exclude_dir(<<s_build>>)
          /\ <<s_build, s_sub>> \in Entries =>
                ~should_exclude_dir(<<s_build, s_sub>>)
          /\ <<s_build, s_sub, s_deep>> \in Entries =>
                /\ should_exclude_dir(<<s_build, s_sub, s_deep>>)
                /\ pc \in {"tree", "done"} =>
                      <<s_build, s_sub, s_deep>> \notin Rendered
          /\ (pc \in {"tree", "done"} /\ root_dir = s_r
              /\ disk.denied = {}) =>
                \A d \in {<<s_build>>, <<s_build, s_sub>>} :
                    d \in Entries => d \in Rendered

C8_Witness ==
    /\ pc = "done"
    /\ exclude_patterns = <<p_build_sub_star>>
    /\ <<s_build, s_sub, s_deep>> \in Entries
    /\ <<s_build, s_sub>> \in Rendered
    /\ <<s_build, s_sub, s_deep>> \notin Rendered

\* The children of a directory that the renderer keeps.
survivors(d) ==
    IF d \in disk.denied THEN {}
    ELSE {c \in children(disk, d) : visible(c)}

\* Line i of the lines L, with paths P, is the last child of its parent
\* that survives the filter.
last_survivor(P, i) ==
    \A q \in survivors(parent(P[i])) \ {P[i]} :
        q \in elements(P) /\ index_in(P, q) < i

\* What C9 says of every line but the prefix rule: the text ends with a
\* newline, the first line is the root's name and a "/", every other line
\* is prefix, connector, name and a "/" for a directory, the connector
\* being the corner exactly for the last child that survives the filter.
lines_and_connectors(L, P) ==
    /\ newline_terminated(tree_structure)
    /\ L[1] = [depth |-> 0, indent |-> <<>>, connector |-> <<>>,
               name |-> root_dir, slash |-> TRUE]
    /\ \A i \in 2..Len(L) :
          /\ P[i] \in Entries
          /\ parent(P[i]) \in elements(P)
          /\ L[i].slash = is_dir(disk, P[i])
          /\ L[i].connector =
                IF last_survivor(P, i) THEN LAST_CONNECTOR ELSE MID_CONNECTOR

\* The extension of the prefix below line par, the root line counting as
\* a last sibling.
extension(L, par) ==
    IF par = 1 \/ L[par].connector = LAST_CONNECTOR
    THEN LAST_INDENT ELSE MID_INDENT

\* C9 as stated: the connector and prefix rule of the renderer, the prefix
\* of every line below the root being its parent's prefix extended by four
\* spaces when the parent was the last sibling and by a bar and three
\* spaces otherwise.
C9_PrefixAlwaysExtended ==
    pc \in {"tree", "done"} =>
        LET L == TreeLines
            P == paths_of(L)
        IN  /\ lines_and_connectors(L, P)
            /\ \A i \in 2..Len(L) :
                  LET par == index_in(P, parent(P[i]))
                  IN  L[i].indent = L[par].indent \o extension(L, par)

\* C9 as amended: the connector and prefix rule of the renderer, the
\* prefix being empty for the children of the root and, for every deeper
\* line, its parent's prefix extended by four spaces when the parent was
\* the last sibling and by a bar and three spaces otherwise.
C9_ConnectorPrefix ==
    pc \in {"tree", "done"} =>
        LET L == TreeLines
            P == paths_of(L)
        IN  /\ lines_and_connectors(L, P)
            /\ \A i \in 2..Len(L) :
                  LET par == index_in(P, parent(P[i]))
                  IN  L[i].indent =
                          IF par = 1 THEN <<>>
                          ELSE L[par].indent \o extension(L, par)

C9_Witness ==
    /\ pc = "done"
    /\ LET L == TreeLines
           P == paths_of(L)
       IN  \E i \in 2..Len(L) :
              /\ L[i].connector = LAST_CONNECTOR
              /\ \E c \in children(disk, parent(P[i])) :
                    /\ ~visible(c)
                    /\ LexLess(tree_key(disk, P[i]), tree_key(disk, c))
              /\ \E j \in 2..Len(L) :
                    parent(P[j]) = P[i] /\ L[j].indent = LAST_INDENT

\* C10: ancestor closure: every directory strictly between the root and a
\* collected file or a rendered entry passes the directory filter, so that
\* a file below an excluded directory is neither collected nor rendered,
\* whatever the file filter and the allow-list say of the file.
C10_AncestorClosure ==
    pc = "done" =>
        LET R == Rendered
        IN  \A p \in Collected \cup (R \ {<<>>}) :
                \A k \in 1..(Len(p) - 1) :
                    /\ is_dir(disk, SubSeq(p, 1, k))
                    /\ ~should_exclude_dir(SubSeq(p, 1, k))

C10_Witness ==
    /\ pc = "done"
    /\ \E f \in Entries :
          /\ is_file(disk, f)
          /\ Len(f) = 2
          /\ should_exclude_dir(parent(f))
          /\ listed(f)
          /\ ~should_exclude_file(f)
          /\ f \notin Collected
          /\ f \notin Rendered
          /\ parent(f) \in Entries
    /\ Collected # {}

===========================================================================
